---- MODULE Spec2Model ----
(***************************************************************************)
(* Distributed COCO detection-metric aggregation of yolort                 *)
(* (src/yolort/data/coco_eval.py): COCOEvaluator.update / compute /        *)
(* derive_coco_results / prepare, and the module functions merge,          *)
(* create_common_coco_eval and evaluate.                                   *)
(*                                                                         *)
(* Conventions.  Python lists are sequences; a Python index i is the       *)
(* sequence position i + 1.  Scores and IoU thresholds are percentages     *)
(* (0.9 is 90).  Floating point results are exact fractions <<n, d>>, the  *)
(* float NaN is <<0, 0>>.  None is the record [none |-> TRUE].  A raised   *)
(* exception is recorded in err[p] and ends the call where Python would.   *)
(***************************************************************************)
EXTENDS Integers, Sequences, FiniteSets, TLC

\* ------------------------------------------------------------------ bounds
\* update calls issued over all processes
MaxUpdates == 2
\* compute calls a process completes without an update in between
MaxComputes == 2

\* --------------------------------------------------------- general helpers
None == [none |-> TRUE]

IsNone(x) == "none" \in DOMAIN x

NaN == <<0, 0>>

RECURSIVE GCD(_, _)
GCD(a, b) == IF b = 0 THEN a ELSE GCD(b, a % b)

Abs(x) == IF x < 0 THEN -x ELSE x

\* the fraction n / d in lowest terms, d > 0
Frac(n, d) ==
    LET g == GCD(Abs(n), d)
    IN  <<n \div g, d \div g>>

FracAdd(x, y) == Frac(x[1] * y[2] + y[1] * x[2], x[2] * y[2])

FracLess(x, y) == x[1] * y[2] < y[1] * x[2]

RECURSIVE FracSum(_)
FracSum(s) == IF s = <<>> THEN <<0, 1>> ELSE FracAdd(Head(s), FracSum(Tail(s)))

\* a list given by its elements, as a tuple
List(f) == f \o <<>>

RECURSIVE Flatten(_)
Flatten(ss) == IF ss = <<>> THEN <<>> ELSE Head(ss) \o Flatten(Tail(ss))

\* keys[i] is smaller than keys[j] in a stable ascending sort
StableBefore(keys, i, j) == keys[i] < keys[j] \/ (keys[i] = keys[j] /\ i < j)

\* np.argsort(keys, kind='mergesort'): the positions of keys in stable
\* ascending order
argsort(keys) ==
    LET n == Len(keys)
        rank(i) == Cardinality({j \in 1..n : StableBefore(keys, j, i)}) + 1
    IN  List([r \in 1..n |-> CHOOSE i \in 1..n : rank(i) = r])

\* ------------------------------------------------- the annotation store
\* coco_gt: the ground truth handed to the constructor.  Category 20 is
\* listed before category 10, image 1 holds one small box of category 10,
\* image 2 one large box of category 20.
Categories == <<20, 10>>

ImgIds == {1, 2}

Annotations ==
    << [id |-> 1, image_id |-> 1, category_id |-> 10,
        bbox |-> <<0, 0, 10, 10>>, area |-> 100, iscrowd |-> 0],
       [id |-> 2, image_id |-> 2, category_id |-> 20,
        bbox |-> <<0, 0, 100, 100>>, area |-> 10000, iscrowd |-> 0] >>

\* COCO.getCatIds(): the category ids in the order of the store
getCatIds == Categories

\* ------------------------------------------------------ evaluation params
\* COCOeval.params for iouType 'bbox' (pycocotools Params.setDetParams)
IouThrs == <<50, 55, 60, 65, 70, 75, 80, 85, 90, 95>>

\* all, small, medium, large; the open upper end 1e5 ** 2 is the largest
\* integer of the model
AreaRng ==
    << <<0, 2147483647>>, <<0, 1024>>, <<1024, 9216>>, <<9216, 2147483647>> >>

MaxDets == <<1, 10, 100>>

\* np.unique(x): the sorted distinct values of x
SortedSet(S) ==
    LET n == Cardinality(S)
    IN  List([r \in 1..n |-> CHOOSE v \in S : Cardinality({w \in S : w < v}) = r - 1])

Range(s) == {s[i] : i \in 1..Len(s)}

\* params.catIds: sorted(cocoGt.getCatIds()), then np.unique in evaluate
ParamsCatIds == SortedSet(Range(getCatIds))

\* --------------------------------------------------------- model outputs
\* the predictions a detector hands over for one image: boxes in xyxy,
\* scores, labels in the contiguous class index space (0-based)
PredNone == [boxes |-> <<>>, scores |-> <<>>, labels |-> <<>>]

\* two detections: the box of image 1 with class index 1 (category 10), and
\* a box of class index 0 (category 20) that overlaps the box of image 2
\* with IoU 0.63
PredBoxes ==
    [boxes  |-> << <<0, 0, 10, 10>>, <<0, 0, 90, 70>> >>,
     scores |-> <<90, 60>>,
     labels |-> <<1, 0>>]

Preds == {PredNone, PredBoxes}

\* one update call: parallel targets and predictions, zipped
Pair(id, prediction) == [image_id |-> id, prediction |-> prediction]

Batches ==
    {<<Pair(i, q)>> : i \in ImgIds, q \in Preds}
        \cup {<<Pair(2, PredBoxes), Pair(1, PredNone)>>,
              <<Pair(1, PredNone), Pair(1, PredBoxes)>>}

\* predictions whose arrays differ in length: one box more than scores and
\* labels, one box fewer than scores and labels, one score more than boxes
\* and labels
PredMoreBoxes ==
    [boxes  |-> << <<0, 0, 10, 10>>, <<0, 0, 90, 70>> >>,
     scores |-> <<90>>,
     labels |-> <<1>>]

PredFewerBoxes ==
    [boxes  |-> << <<0, 0, 10, 10>> >>,
     scores |-> <<90, 60>>,
     labels |-> <<1, 0>>]

PredMoreScores ==
    [boxes  |-> << <<0, 0, 10, 10>> >>,
     scores |-> <<90, 60>>,
     labels |-> <<1>>]

MalformedPreds == {PredMoreBoxes, PredFewerBoxes, PredMoreScores}

MalformedBatches ==
    {<<Pair(1, q)>> : q \in MalformedPreds}
        \cup {<<Pair(2, PredMoreBoxes)>>,
              <<Pair(2, PredBoxes), Pair(1, PredFewerBoxes)>>}

\* two detections of class index 0 for image 2: a box that misses the
\* ground truth, scored above the box that is the ground truth
PredRanked ==
    [boxes  |-> << <<50, 50, 60, 60>>, <<0, 0, 100, 100>> >>,
     scores |-> <<90, 60>>,
     labels |-> <<0, 0>>]

\* the update calls of an evaluator whose report is read with class names:
\* the batches above, two detections of one category in one image, and a
\* batch that fails in prepare
DeriveBatches ==
    Batches \cup {<<Pair(2, PredRanked)>>, <<Pair(1, PredMoreBoxes)>>}

IouTypes == {"bbox", "segm", "keypoints"}

\* ------------------------------------------------------- ResultFormatter
\* torchvision.ops.box_convert(boxes, in_fmt='xyxy', out_fmt='xywh')
box_convert(b) == <<b[1], b[2], b[3] - b[1], b[4] - b[2]>>

\* records = {target image_id: prediction}: a key keeps the position of its
\* first insertion and the value of its last
DictKeys(batch) ==
    LET firsts == {i \in 1..Len(batch) :
                      \A j \in 1..(i - 1) : batch[j].image_id # batch[i].image_id}
        pos == SortedSet(firsts)
    IN  List([r \in 1..Len(pos) |-> batch[pos[r]].image_id])

DictValue(batch, key) ==
    LET last == CHOOSE i \in 1..Len(batch) :
                    /\ batch[i].image_id = key
                    /\ \A j \in (i + 1)..Len(batch) : batch[j].image_id # key
    IN  batch[last].prediction

\* len(prediction): the number of keys of the prediction dict
PredLen(prediction) == Cardinality(DOMAIN prediction)

\* a faulty variant of DetectionRecords: the class index is written as the
\* category id, the table is not consulted
DetectionRecordsUnmapped(original_id, prediction, table) ==
    IF PredLen(prediction) = 0 THEN <<>>
    ELSE List([k \in 1..Len(prediction.boxes) |->
             [image_id    |-> original_id,
              category_id |-> prediction.labels[k],
              bbox        |-> box_convert(prediction.boxes[k]),
              score       |-> prediction.scores[k]]])

\* prepare_for_coco_detection, the records of one image
DetectionRecords(original_id, prediction, table) ==
    IF PredLen(prediction) = 0 THEN <<>>
    ELSE List([k \in 1..Len(prediction.boxes) |->
             [image_id    |-> original_id,
              category_id |-> table[prediction.labels[k] + 1],
              bbox        |-> box_convert(prediction.boxes[k]),
              score       |-> prediction.scores[k]]])

\* the list comprehension of prepare_for_coco_detection indexes labels, the
\* table and scores by the position k of every box: a box without a label,
\* a label past the table or a box without a score raises IndexError
IndexErrorIn(prediction, table) ==
    /\ PredLen(prediction) # 0
    /\ \E k \in 1..Len(prediction.boxes) :
           \/ k > Len(prediction.labels)
           \/ prediction.labels[k] >= Len(table)
           \/ k > Len(prediction.scores)

\* COCOEvaluator.prepare_for_coco_detection(predictions): the records, or
\* the exception raised
prepare_for_coco_detection(batch, table) ==
    LET keys == DictKeys(batch)
    IN  IF \E r \in 1..Len(keys) : IndexErrorIn(DictValue(batch, keys[r]), table)
        THEN [raised |-> "IndexError", value |-> <<>>]
        ELSE [raised |-> "",
              value  |-> Flatten([r \in 1..Len(keys) |->
                            DetectionRecords(keys[r], DictValue(batch, keys[r]),
                                             table)])]

\* a faulty variant of prepare: every IoU type is formatted as boxes
prepare_any_type(batch, type, table) ==
    prepare_for_coco_detection(batch, table)

\* COCOEvaluator.prepare(predictions, iou_type): the records, or the
\* exception raised
prepare(batch, type, table) ==
    IF type = "bbox"
    THEN prepare_for_coco_detection(batch, table)
    ELSE [raised |-> "ValueError", value |-> <<>>]

\* ------------------------------------------- per-image evaluation (COCOeval)
\* COCO.loadRes(coco_gt, results): every record becomes a detection
\* annotation with id = position, area = w * h and iscrowd = 0; an empty
\* result list gives the empty COCO()
loadRes(resFile) ==
    List([i \in 1..Len(resFile) |->
        [id          |-> i,
         image_id    |-> resFile[i].image_id,
         category_id |-> resFile[i].category_id,
         bbox        |-> resFile[i].bbox,
         score       |-> resFile[i].score,
         area        |-> resFile[i].bbox[3] * resFile[i].bbox[4],
         iscrowd     |-> 0]])

\* COCOeval._prepare: the annotations of one (image, category)
AnnsOf(anns, imgId, catId) ==
    SelectSeq(anns, LAMBDA x : x.image_id = imgId /\ x.category_id = catId)

Min(a, b) == IF a < b THEN a ELSE b

Max(a, b) == IF a > b THEN a ELSE b

\* maskUtils.iou of one detection box and one ground-truth box (xywh)
bbIou(D, G, crowd) ==
    LET w == Min(D[3] + D[1], G[3] + G[1]) - Max(D[1], G[1])
        h == Min(D[4] + D[2], G[4] + G[2]) - Max(D[2], G[2])
        i == w * h
        da == D[3] * D[4]
        ga == G[3] * G[4]
    IN  IF w <= 0 \/ h <= 0 THEN <<0, 1>>
        ELSE Frac(i, IF crowd # 0 THEN da ELSE da + ga - i)

\* detections by descending score, ties in their order, cut to maxDet
SortDt(dt, maxDet) ==
    LET inds == argsort([i \in 1..Len(dt) |-> -dt[i].score])
    IN  List([r \in 1..Min(Len(dt), maxDet) |-> dt[inds[r]]])

\* COCOeval.computeIoU(imgId, catId): ious[d][g]; [] when either side is
\* empty
computeIoU(gt, dt) ==
    LET d == SortDt(dt, MaxDets[Len(MaxDets)])
    IN  IF Len(gt) = 0 \/ Len(d) = 0 THEN <<>>
        ELSE List([i \in 1..Len(d) |->
                 List([j \in 1..Len(gt) |->
                          bbIou(d[i].bbox, gt[j].bbox, gt[j].iscrowd)])])

\* the inner loop of evaluateImg over the ground truths: the position of
\* the ground truth matched to one detection, 0 when there is none
RECURSIVE MatchGt(_, _, _, _, _, _, _)
MatchGt(row, gtm, gtIg, iscrowd, gind, m, iou) ==
    IF gind > Len(gtIg) THEN m
    ELSE IF gtm[gind] > 0 /\ iscrowd[gind] = 0
         THEN MatchGt(row, gtm, gtIg, iscrowd, gind + 1, m, iou)
    ELSE IF m > 0 /\ gtIg[m] = 0 /\ gtIg[gind] = 1 THEN m
    ELSE IF FracLess(row[gind], iou)
         THEN MatchGt(row, gtm, gtIg, iscrowd, gind + 1, m, iou)
    ELSE MatchGt(row, gtm, gtIg, iscrowd, gind + 1, gind, row[gind])

\* the loop of evaluateImg over the detections at one IoU threshold t
RECURSIVE MatchDt(_, _, _, _, _, _, _, _)
MatchDt(ious, gt, dt, gtIg, iscrowd, t, dind, st) ==
    IF dind > Len(dt) THEN st
    ELSE LET m == MatchGt(ious[dind], st.gtm, gtIg, iscrowd, 1, 0, <<t, 100>>)
         IN  IF m = 0
             THEN MatchDt(ious, gt, dt, gtIg, iscrowd, t, dind + 1, st)
             ELSE MatchDt(ious, gt, dt, gtIg, iscrowd, t, dind + 1,
                          [gtm  |-> [st.gtm EXCEPT ![m] = dt[dind].id],
                           dtm  |-> [st.dtm EXCEPT ![dind] = gt[m].id],
                           dtIg |-> [st.dtIg EXCEPT ![dind] = gtIg[m]]])

\* a faulty variant of OutOfRange: only the lower end of the range is tested
OutOfRangeBelow(area, aRng) == area < aRng[1]

OutOfRange(area, aRng) == area < aRng[1] \/ area > aRng[2]

\* COCOeval.evaluateImg(imgId, catId, aRng, maxDet) on the ground truths
\* gt0 and detections dt0 of the (image, category)
evaluateImg(imgId, catId, aRng, maxDet, gt0, dt0) ==
    IF Len(gt0) = 0 /\ Len(dt0) = 0 THEN None
    ELSE
    LET ign0 == List([i \in 1..Len(gt0) |->
                    IF gt0[i].iscrowd # 0 \/ OutOfRange(gt0[i].area, aRng)
                    THEN 1 ELSE 0])
        gtind == argsort(ign0)
        gt == List([r \in 1..Len(gt0) |-> gt0[gtind[r]]])
        gtIg == List([r \in 1..Len(gt0) |-> ign0[gtind[r]]])
        dt == SortDt(dt0, maxDet)
        iscrowd == List([r \in 1..Len(gt) |-> gt[r].iscrowd])
        ious0 == computeIoU(gt0, dt0)
        ious == IF Len(ious0) > 0
                THEN List([i \in 1..Len(ious0) |->
                         List([r \in 1..Len(gt) |-> ious0[i][gtind[r]]])])
                ELSE ious0
        zero == [gtm  |-> List([r \in 1..Len(gt) |-> 0]),
                 dtm  |-> List([i \in 1..Len(dt) |-> 0]),
                 dtIg |-> List([i \in 1..Len(dt) |-> 0])]
        m == List([tind \in 1..Len(IouThrs) |->
                 IF Len(ious) = 0 THEN zero
                 ELSE MatchDt(ious, gt, dt, gtIg, iscrowd, IouThrs[tind], 1, zero)])
        a == List([i \in 1..Len(dt) |-> OutOfRange(dt[i].area, aRng)])
    IN  [image_id    |-> imgId,
         category_id |-> catId,
         aRng        |-> aRng,
         maxDet      |-> maxDet,
         dtIds       |-> List([i \in 1..Len(dt) |-> dt[i].id]),
         gtIds       |-> List([r \in 1..Len(gt) |-> gt[r].id]),
         dtMatches   |-> List([tind \in 1..Len(IouThrs) |-> m[tind].dtm]),
         gtMatches   |-> List([tind \in 1..Len(IouThrs) |-> m[tind].gtm]),
         dtScores    |-> List([i \in 1..Len(dt) |-> dt[i].score]),
         gtIgnore    |-> gtIg,
         dtIgnore    |-> List([tind \in 1..Len(IouThrs) |->
                             List([i \in 1..Len(dt) |->
                                 IF m[tind].dtIg[i] = 1
                                    \/ (m[tind].dtm[i] = 0 /\ a[i])
                                 THEN 1 ELSE 0])])]

\* evaluate(coco_eval) with cocoDt and params.imgIds set by update: the
\* match tensor of shape (categories, area ranges, images), the images in
\* np.unique order
evaluate(cocoDt, imgIds) ==
    LET ids == SortedSet(Range(imgIds))
        maxDet == MaxDets[Len(MaxDets)]
    IN  [imgIds   |-> ids,
         evalImgs |->
            List([k \in 1..Len(ParamsCatIds) |->
                List([a \in 1..Len(AreaRng) |->
                    List([i \in 1..Len(ids) |->
                        evaluateImg(ids[i], ParamsCatIds[k], AreaRng[a], maxDet,
                                    AnnsOf(Annotations, ids[i], ParamsCatIds[k]),
                                    AnnsOf(cocoDt, ids[i], ParamsCatIds[k]))])])])]

\* -------------------------------------------------------- DistributedMerger
\* the shape of a match tensor along the image axis
ImageAxisLen(tensor) == Len(tensor[1][1])

\* the empty match tensor (no image column)
EmptyTensor ==
    List([k \in 1..Len(ParamsCatIds) |-> List([a \in 1..Len(AreaRng) |-> <<>>])])

\* np.concatenate(tensors, 2): the tensors joined along the image axis
concatenate(tensors) ==
    List([k \in 1..Len(ParamsCatIds) |->
        List([a \in 1..Len(AreaRng) |->
            Flatten([n \in 1..Len(tensors) |-> tensors[n][k][a]])])])

\* a faulty variant of unique: a plain stable sort, repeated values kept
unique_keeping_repeats(ar) ==
    LET perm == argsort(ar)
    IN  [values |-> List([r \in 1..Len(ar) |-> ar[perm[r]]]),
         index  |-> perm]

\* a faulty variant of unique: the index of the last occurrence of every
\* value
unique_last_index(ar) ==
    LET perm == argsort(ar)
        aux == List([r \in 1..Len(ar) |-> ar[perm[r]]])
        mask == {r \in 1..Len(ar) : r = Len(ar) \/ aux[r] # aux[r + 1]}
        keep == SortedSet(mask)
    IN  [values |-> List([n \in 1..Len(keep) |-> aux[keep[n]]]),
         index  |-> List([n \in 1..Len(keep) |-> perm[keep[n]]])]

\* a faulty variant of unique: the distinct values in the order of their
\* first occurrence, unsorted
unique_unsorted(ar) ==
    LET firsts == {i \in 1..Len(ar) : \A j \in 1..(i - 1) : ar[j] # ar[i]}
        keep == SortedSet(firsts)
    IN  [values |-> List([n \in 1..Len(keep) |-> ar[keep[n]]]),
         index  |-> keep]

\* np.unique(ar, return_index=True): a stable argsort, then the first
\* element of every run of equal values
unique(ar) ==
    LET perm == argsort(ar)
        aux == List([r \in 1..Len(ar) |-> ar[perm[r]]])
        mask == {r \in 1..Len(ar) : r = 1 \/ aux[r] # aux[r - 1]}
        keep == SortedSet(mask)
    IN  [values |-> List([n \in 1..Len(keep) |-> aux[keep[n]]]),
         index  |-> List([n \in 1..Len(keep) |-> perm[keep[n]]])]

\* merge(img_ids, eval_imgs) after the two all_gather calls: all_img_ids
\* and all_eval_imgs hold one entry per process, in rank order
merge(all_img_ids, all_eval_imgs) ==
    LET merged_img_ids == Flatten(all_img_ids)
        merged_eval_imgs == concatenate(all_eval_imgs)
        u == unique(merged_img_ids)
    IN  IF \E n \in 1..Len(u.index) : u.index[n] > ImageAxisLen(merged_eval_imgs)
        THEN [raised |-> "IndexError", img_ids |-> <<>>, eval_imgs |-> EmptyTensor]
        ELSE [raised   |-> "",
              img_ids  |-> u.values,
              eval_imgs |->
                 List([k \in 1..Len(ParamsCatIds) |->
                     List([a \in 1..Len(AreaRng) |->
                         List([n \in 1..Len(u.index) |->
                             merged_eval_imgs[k][a][u.index[n]]])])])]

\* eval_imgs.flatten(): row-major over (category, area range, image)
flatten(tensor) ==
    Flatten([k \in 1..Len(ParamsCatIds) |->
                Flatten([a \in 1..Len(AreaRng) |-> tensor[k][a]])])

\* ---------------------------------------------------- StatisticsAccumulator
Take(s, n) == SubSeq(s, 1, Min(Len(s), n))

\* the running maximum from the right: pr[i-1] = pr[i] where pr[i] > pr[i-1]
RECURSIVE Envelope(_)
Envelope(pr) ==
    IF Len(pr) <= 1 THEN pr
    ELSE LET rest == Envelope(Tail(pr))
         IN  <<IF FracLess(Head(pr), rest[1]) THEN rest[1] ELSE Head(pr)>> \o rest

\* the number of s[j], j <= i, that are TRUE
CountUpTo(s, i) == Cardinality({j \in 1..i : s[j]})

\* the recall thresholds of COCOeval.params (np.linspace(0, 1, 101))
NumRecThrs == 101

\* COCOeval.accumulate, the part of one (category, area range, max-dets)
\* that does not depend on the iou threshold: the cells that are not None,
\* the detection order by descending score, the count of ground truths
\* that are not ignored
SliceInputs(E0, maxDet) ==
    LET E == SelectSeq(E0, LAMBDA e : ~IsNone(e))
        dtScores == Flatten([n \in 1..Len(E) |-> Take(E[n].dtScores, maxDet)])
        gtIg == Flatten([n \in 1..Len(E) |-> E[n].gtIgnore])
    IN  [E    |-> E,
         nd   |-> Len(dtScores),
         inds |-> argsort(List([i \in 1..Len(dtScores) |-> -dtScores[i]])),
         npig |-> Cardinality({g \in 1..Len(gtIg) : gtIg[g] = 0})]

\* COCOeval.accumulate for one iou threshold of such a slice: the precision
\* at the recall thresholds, kept as its sum over them; valid is FALSE
\* where the code leaves the slice at -1.  The recall thresholds r / 100
\* that np.searchsorted sends to detection i are those with
\* rc[i-1] < r / 100 <= rc[i]; the thresholds past the last detection keep
\* precision 0.
PrecisionSlice(in, tind, maxDet) ==
    LET E == in.E
        dtm0 == Flatten([n \in 1..Len(E) |-> Take(E[n].dtMatches[tind], maxDet)])
        dtIg0 == Flatten([n \in 1..Len(E) |-> Take(E[n].dtIgnore[tind], maxDet)])
        tps == List([i \in 1..in.nd |-> dtm0[in.inds[i]] # 0 /\ dtIg0[in.inds[i]] = 0])
        fps == List([i \in 1..in.nd |-> dtm0[in.inds[i]] = 0 /\ dtIg0[in.inds[i]] = 0])
        tp == List([i \in 1..in.nd |-> CountUpTo(tps, i)])
        fp == List([i \in 1..in.nd |-> CountUpTo(fps, i)])
        pr == Envelope(List([i \in 1..in.nd |->
                           IF tp[i] + fp[i] = 0 THEN <<0, 1>>
                           ELSE Frac(tp[i], tp[i] + fp[i])]))
        upto == List([i \in 1..in.nd |->
                    (Min(NumRecThrs - 1, ((NumRecThrs - 1) * tp[i]) \div in.npig)) + 1])
        before(i) == IF i = 1 THEN 0 ELSE upto[i - 1]
    IN  IF Len(E) = 0 \/ in.npig = 0 THEN [valid |-> FALSE, sum |-> <<0, 1>>]
        ELSE [valid |-> TRUE,
              sum   |-> FracSum(List([i \in 1..in.nd |->
                                    Frac(pr[i][1] * (upto[i] - before(i)), pr[i][2])]))]

\* COCOeval.accumulate(): eval['precision'][t][k][a][m] over the iou
\* thresholds, categories, area ranges and max-dets values, read from the
\* flat evalImgs list by the index arithmetic of the code (Nk + Na + i)
accumulate(evalImgs, imgIds) ==
    LET I0 == Len(imgIds)
        A0 == Len(AreaRng)
        in == List([k \in 1..Len(ParamsCatIds) |->
                  List([a \in 1..Len(AreaRng) |->
                      List([m \in 1..Len(MaxDets) |->
                          SliceInputs(
                              List([i \in 1..I0 |->
                                  evalImgs[(k - 1) * A0 * I0 + (a - 1) * I0 + i]]),
                              MaxDets[m])])])])
    IN  List([t \in 1..Len(IouThrs) |->
            List([k \in 1..Len(ParamsCatIds) |->
                List([a \in 1..Len(AreaRng) |->
                    List([m \in 1..Len(MaxDets) |->
                        PrecisionSlice(in[k][a][m], t, MaxDets[m])])])])])

\* _summarize(ap=1, iouThr, areaRng) at maxDets[2]: the mean of the
\* precision entries above -1, or -1 when there is none.  tinds are the
\* positions of the iou thresholds taken.
summarize1(precision, tinds, a) ==
    LET cells == {<<t, k>> \in tinds \X (1..Len(ParamsCatIds)) :
                      precision[t][k][a][Len(MaxDets)].valid}
        order == SortedSet({(c[1] - 1) * Len(ParamsCatIds) + c[2] : c \in cells})
        sums == List([n \in 1..Len(order) |->
                    precision[((order[n] - 1) \div Len(ParamsCatIds)) + 1]
                             [((order[n] - 1) % Len(ParamsCatIds)) + 1][a]
                             [Len(MaxDets)].sum])
        total == FracSum(sums)
    IN  IF cells = {} THEN <<-1, 1>>
        ELSE Frac(total[1], total[2] * NumRecThrs * Cardinality(cells))

ThrIndex(thr) == {t \in 1..Len(IouThrs) : IouThrs[t] = thr}

\* COCOeval.summarize(): stats[0..5], the six precision statistics
summarize(precision) ==
    LET all == 1..Len(IouThrs)
    IN  << summarize1(precision, all, 1),
           summarize1(precision, ThrIndex(50), 1),
           summarize1(precision, ThrIndex(75), 1),
           summarize1(precision, all, 2),
           summarize1(precision, all, 3),
           summarize1(precision, all, 4) >>

\* ------------------------------------------------------ derive_coco_results
Metrics ==
    [bbox      |-> <<"AP", "AP50", "AP75", "APs", "APm", "APl">>,
     segm      |-> <<"AP", "AP50", "AP75", "APs", "APm", "APl">>,
     keypoints |-> <<"AP", "AP50", "AP75", "APm", "APl">>]

\* float(x * 100 if x >= 0 else "nan")
Percent(x) == IF x[1] >= 0 THEN Frac(x[1] * 100, x[2]) ELSE NaN

\* the class names a caller may pass, and "AP-" + name
ClassNames == <<"person", "car", "dog">>

APKey(name) ==
    CASE name = "person" -> "AP-person"
      [] name = "car" -> "AP-car"
      [] name = "dog" -> "AP-dog"

\* a faulty variant of CategoryAP: the area range 'small' instead of 'all'
CategoryAPSmall(precision, idx) ==
    LET ts == {t \in 1..Len(IouThrs) : precision[t][idx][2][Len(MaxDets)].valid}
        order == SortedSet(ts)
        total == FracSum(List([n \in 1..Len(order) |->
                                  precision[order[n]][idx][2][Len(MaxDets)].sum]))
    IN  IF ts = {} THEN NaN
        ELSE Frac(total[1] * 100, total[2] * NumRecThrs * Cardinality(ts))

\* a faulty variant of CategoryAP: the first max-dets value instead of the
\* last
CategoryAPFirstMaxDets(precision, idx) ==
    LET ts == {t \in 1..Len(IouThrs) : precision[t][idx][1][1].valid}
        order == SortedSet(ts)
        total == FracSum(List([n \in 1..Len(order) |->
                                  precision[order[n]][idx][1][1].sum]))
    IN  IF ts = {} THEN NaN
        ELSE Frac(total[1] * 100, total[2] * NumRecThrs * Cardinality(ts))

\* np.mean(precision[:, :, idx, 0, -1] above -1) * 100, or nan
CategoryAP(precision, idx) ==
    LET ts == {t \in 1..Len(IouThrs) : precision[t][idx][1][Len(MaxDets)].valid}
        order == SortedSet(ts)
        total == FracSum(List([n \in 1..Len(order) |->
                                  precision[order[n]][idx][1][Len(MaxDets)].sum]))
    IN  IF ts = {} THEN NaN
        ELSE Frac(total[1] * 100, total[2] * NumRecThrs * Cardinality(ts))

\* COCOEvaluator.derive_coco_results(class_names) on the process's
\* coco_eval; the argument is None or [list |-> the names]
derive_coco_results(type, cocoEval, arg) ==
    LET metrics == Metrics[type]
        class_names == IF IsNone(arg) THEN <<>> ELSE arg.list
        res == [m \in Range(metrics) |->
                       Percent(cocoEval.stats[CHOOSE i \in 1..Len(metrics) :
                                                   metrics[i] = m])]
        precisions == cocoEval.precision
        per == [n \in {APKey(class_names[i]) : i \in 1..Len(class_names)} |->
                   CategoryAP(precisions,
                              CHOOSE i \in 1..Len(class_names) :
                                  /\ APKey(class_names[i]) = n
                                  /\ \A j \in (i + 1)..Len(class_names) :
                                         APKey(class_names[j]) # n)]
    IN  IF Len(cocoEval.stats) < Len(metrics)
        THEN [raised |-> "IndexError", value |-> <<>>]
        ELSE IF IsNone(arg) \/ Len(class_names) <= 1
        THEN [raised |-> "", value |-> res]
        ELSE IF precisions = <<>>
        THEN [raised |-> "KeyError", value |-> <<>>]
        ELSE IF Len(class_names) # Len(ParamsCatIds)
        THEN [raised |-> "AssertionError", value |-> <<>>]
        ELSE [raised |-> "", value |-> per @@ res]

\* ------------------------------------------------------------ the processes
\* the evaluation workers, in rank order
Procs == {1, 2}

Ranks(w) == SortedSet(w)

\* the arguments derive_coco_results is called with: None, or the first n
\* class names
ClassNameArgs ==
    {[list |-> SubSeq(ClassNames, 1, n)] : n \in 0..Len(ClassNames)}

\* a faulty variant of UpdateCalls: self.img_ids is extended by the keys of
\* records in their dict order, not by np.unique of them
UpdateCallsKeys(batch, type, table) ==
    LET ids == DictKeys(batch)
        r == prepare(batch, type, table)
    IN  [ids |-> ids, raised |-> r.raised, value |-> r.value,
         ev  |-> IF r.raised # "" THEN None ELSE evaluate(loadRes(r.value), ids)]

\* the calls update makes after it has extended self.img_ids by ids: prepare,
\* COCO.loadRes and evaluate
UpdateCalls(batch, type, table) ==
    LET ids == SortedSet(Range(DictKeys(batch)))
        r == prepare(batch, type, table)
    IN  [ids |-> ids, raised |-> r.raised, value |-> r.value,
         ev  |-> IF r.raised # "" THEN None ELSE evaluate(loadRes(r.value), ids)]

\* UpdateCalls for the table read from the store, computed once per batch
BboxCalls ==
    {[batch |-> b, calls |-> UpdateCalls(b, "bbox", getCatIds)] :
        b \in Batches \cup MalformedBatches \cup DeriveBatches}

VARIABLES
    world,                         \* the processes of the process group
    iou_type,                      \* the iou_type every evaluator is built with
    contiguous_to_json_category,   \* per process: the category remapping table
    img_ids,                       \* per process: self.img_ids
    eval_imgs,                     \* per process: self.eval_imgs, a list of tensors
    coco_eval,                     \* per process: self.coco_eval
    results,                       \* per process: the last return of compute
    err,                           \* per process: the exception of the last call, or ""
    pc,                            \* per process: "idle", "gather" inside
                                   \* all_gather(img_ids), "gather_eval_imgs"
                                   \* inside all_gather(eval_imgs)
    gathered,                      \* per process: the img_ids and eval_imgs of
                                   \* compute, which it hands to all_gather
    taken,                         \* per process: it has read the gathered data
    prepared,                      \* the last call of prepare: its argument and outcome
    derived,                       \* derive_coco_results(class_names), if the last call was one
    dirty,                         \* an update ran since the gather completed
    returned,                      \* per process: compute calls that returned since
                                   \* the last update on any process
    nUpdates,                      \* update calls issued so far
    failed,                        \* per process: an update call has raised
    summarized                     \* per process: compute has installed its
                                   \* result and no update of the process has
                                   \* reached evaluate since

vars ==
    <<world, iou_type, contiguous_to_json_category, img_ids, eval_imgs, coco_eval,
      results, err, pc, gathered, taken, prepared, derived, dirty, returned, nUpdates,
      failed, summarized>>

\* COCOEvaluator.__init__ on every process
Init ==
    /\ world \in {{1}, Procs}
    /\ iou_type \in IouTypes
    /\ contiguous_to_json_category = [p \in Procs |-> getCatIds]
    /\ img_ids = [p \in Procs |-> <<>>]
    /\ eval_imgs = [p \in Procs |-> <<>>]
    /\ coco_eval = [p \in Procs |->
                       [imgIds    |-> SortedSet(ImgIds),
                        evalImgs  |-> <<>>,
                        precision |-> <<>>,
                        stats     |-> <<>>]]
    /\ results = [p \in Procs |-> None]
    /\ err = [p \in Procs |-> ""]
    /\ pc = [p \in Procs |-> "idle"]
    /\ gathered = [p \in Procs |-> None]
    /\ taken = [p \in Procs |-> FALSE]
    /\ prepared = None
    /\ derived = None
    /\ dirty = FALSE
    /\ returned = [p \in Procs |-> 0]
    /\ nUpdates = 0
    /\ failed = [p \in Procs |-> FALSE]
    /\ summarized = [p \in Procs |-> FALSE]

\* COCOEvaluator.update(preds, targets) on process p
Update(p, batch) ==
    LET table == contiguous_to_json_category[p]
        r == IF iou_type = "bbox" /\ table = getCatIds
             THEN (CHOOSE c \in BboxCalls : c.batch = batch).calls
             ELSE UpdateCalls(batch, iou_type, table)
        ids == r.ids
        ev == r.ev
    IN  /\ p \in world
        /\ pc[p] = "idle"
        /\ nUpdates < MaxUpdates
        /\ nUpdates' = nUpdates + 1
        /\ img_ids' = [img_ids EXCEPT ![p] = @ \o ids]
        /\ prepared' = [predictions |-> batch, raised |-> r.raised,
                        value |-> r.value]
        /\ err' = [err EXCEPT ![p] = r.raised]
        /\ IF r.raised # ""
           THEN UNCHANGED <<eval_imgs, coco_eval>>
           ELSE /\ eval_imgs' = [eval_imgs EXCEPT ![p] = Append(@, ev.evalImgs)]
                /\ coco_eval' = [coco_eval EXCEPT ![p].imgIds = ev.imgIds,
                                                  ![p].evalImgs = <<>>,
                                                  ![p].precision = <<>>]
        /\ derived' = None
        /\ dirty' = TRUE
        /\ returned' = [q \in Procs |-> 0]
        /\ failed' = [failed EXCEPT ![p] = @ \/ r.raised # ""]
        /\ summarized' = [summarized EXCEPT ![p] = @ /\ r.raised # ""]
        /\ UNCHANGED <<world, iou_type, contiguous_to_json_category, results,
                       pc, gathered, taken>>

\* all_gather(data): the data of every process of the group, in rank
\* order; every caller receives the same list
all_gather(field) ==
    LET ranks == Ranks(world)
    IN  List([r \in 1..Len(ranks) |-> gathered[ranks[r]][field]])

\* a faulty variant of create_common_coco_eval: the process merges only
\* what it accumulated itself
create_local_coco_eval(p) ==
    LET m == merge(<<gathered[p].img_ids>>, <<gathered[p].eval_imgs>>)
    IN  [raised    |-> m.raised,
         imgIds    |-> m.img_ids,
         evalImgs  |-> flatten(m.eval_imgs)]

\* create_common_coco_eval(coco_eval, img_ids, eval_imgs) on process p
create_common_coco_eval(p) ==
    LET m == merge(all_gather("img_ids"), all_gather("eval_imgs"))
    IN  [raised    |-> m.raised,
         imgIds    |-> m.img_ids,
         evalImgs  |-> flatten(m.eval_imgs)]

\* a faulty variant of ComputeStart: the concatenated tensor is written back
\* to self.eval_imgs
ComputeStartInPlace(p) ==
    /\ p \in world
    /\ pc[p] = "idle"
    /\ IsNone(gathered[p])
    /\ returned[p] < MaxComputes
    /\ eval_imgs[p] # <<>>
    /\ gathered' = [gathered EXCEPT ![p] =
                       [img_ids   |-> img_ids[p],
                        eval_imgs |-> concatenate(eval_imgs[p])]]
    /\ eval_imgs' = [eval_imgs EXCEPT ![p] = <<concatenate(eval_imgs[p])>>]
    /\ pc' = [pc EXCEPT ![p] = "gather"]
    /\ dirty' = (dirty /\ \E q \in world \ {p} : IsNone(gathered[q]))
    /\ derived' = None
    /\ UNCHANGED <<world, iou_type, contiguous_to_json_category, failed,
                   summarized, img_ids,
                   coco_eval, results, err, returned, prepared, taken, nUpdates>>

\* COCOEvaluator.compute() on process p up to the first all_gather: the
\* local tensors are concatenated (np.concatenate raises on an empty list)
\* and the image ids are handed to the collective of line 199
ComputeStart(p) ==
    /\ p \in world
    /\ pc[p] = "idle"
    /\ IsNone(gathered[p])
    /\ returned[p] < MaxComputes
    /\ IF eval_imgs[p] = <<>>
       THEN /\ err' = [err EXCEPT ![p] = "ValueError"]
            /\ results' = [results EXCEPT ![p] = None]
            /\ returned' = [returned EXCEPT ![p] = 0]
            /\ UNCHANGED <<pc, gathered, dirty>>
       ELSE /\ gathered' = [gathered EXCEPT ![p] =
                               [img_ids   |-> img_ids[p],
                                eval_imgs |-> concatenate(eval_imgs[p])]]
            /\ pc' = [pc EXCEPT ![p] = "gather"]
            /\ dirty' = (dirty /\ \E q \in world \ {p} : IsNone(gathered[q]))
            /\ UNCHANGED <<err, results, returned>>
    /\ derived' = None
    /\ UNCHANGED <<world, iou_type, contiguous_to_json_category, failed,
                   summarized, img_ids, eval_imgs,
                   coco_eval, prepared, taken, nUpdates>>

\* process q has entered all_gather(eval_imgs) in the running round
SentEvalImgs(q) ==
    ~IsNone(gathered[q]) /\ (pc[q] = "gather_eval_imgs" \/ taken[q])

\* merge on process p between its two collectives: all_gather(img_ids)
\* returns once every process has contributed, and the process enters
\* all_gather(eval_imgs)
ComputeGather(p) ==
    /\ p \in world
    /\ pc[p] = "gather"
    /\ \A q \in world : ~IsNone(gathered[q])
    /\ pc' = [pc EXCEPT ![p] = "gather_eval_imgs"]
    /\ derived' = None
    /\ UNCHANGED <<world, iou_type, contiguous_to_json_category, failed,
                   summarized, img_ids,
                   eval_imgs, coco_eval, results, err, gathered, taken, prepared,
                   dirty, returned, nUpdates>>

\* the rest of compute() on process p once every process has contributed
\* to all_gather(eval_imgs): merge, accumulate, summarize,
\* derive_coco_results()
ComputeFinish(p) ==
    /\ p \in world
    /\ pc[p] = "gather_eval_imgs"
    /\ \A q \in world : SentEvalImgs(q)
    /\ LET c == create_common_coco_eval(p)
           precision == accumulate(c.evalImgs, c.imgIds)
           ce == [imgIds |-> c.imgIds, evalImgs |-> c.evalImgs,
                  precision |-> precision, stats |-> summarize(precision)]
           d == derive_coco_results(iou_type, ce, None)
           raised == IF c.raised # "" THEN c.raised ELSE d.raised
       IN  /\ err' = [err EXCEPT ![p] = raised]
           /\ IF c.raised # ""
              THEN UNCHANGED coco_eval
              ELSE coco_eval' = [coco_eval EXCEPT ![p] = ce]
           /\ summarized' = [summarized EXCEPT ![p] = @ \/ c.raised = ""]
           /\ results' = [results EXCEPT ![p] = IF raised # "" THEN None ELSE d.value]
           /\ returned' = [returned EXCEPT ![p] =
                              IF raised = "" /\ ~dirty THEN @ + 1 ELSE 0]
    /\ pc' = [pc EXCEPT ![p] = "idle"]
    /\ LET t == [taken EXCEPT ![p] = TRUE]
       IN  IF \A q \in world : t[q]
           THEN /\ taken' = [q \in Procs |-> FALSE]
                /\ gathered' = [q \in Procs |-> None]
           ELSE /\ taken' = t
                /\ UNCHANGED gathered
    /\ derived' = None
    /\ UNCHANGED <<world, iou_type, contiguous_to_json_category, failed,
                   img_ids, eval_imgs, prepared, dirty, nUpdates>>

\* COCOEvaluator.derive_coco_results(class_names) called on process p
DeriveResults(p, arg) ==
    /\ p \in world
    /\ pc[p] = "idle"
    /\ LET d == derive_coco_results(iou_type, coco_eval[p], arg)
       IN  /\ derived' = [proc |-> p, class_names |-> arg, raised |-> d.raised,
                          value |-> d.value]
           /\ err' = [err EXCEPT ![p] = d.raised]
    /\ UNCHANGED <<world, iou_type, contiguous_to_json_category, failed,
                   summarized, img_ids, eval_imgs,
                   coco_eval, results, pc, gathered, taken, prepared, dirty,
                   returned, nUpdates>>

Next ==
    \/ \E p \in Procs, batch \in Batches : Update(p, batch)
    \/ \E p \in Procs : ComputeStart(p)
    \/ \E p \in Procs : ComputeGather(p)
    \/ \E p \in Procs : ComputeFinish(p)

Spec == Init /\ [][Next]_vars

\* one evaluator outside a process group, whose report is read with
\* class names
InitDerive == Init /\ world = {1} /\ iou_type = "bbox"

NextDerive ==
    \/ Next
    \/ \E p \in Procs, batch \in DeriveBatches : Update(p, batch)
    \/ \E p \in Procs, arg \in ClassNameArgs : DeriveResults(p, arg)

SpecDerive == InitDerive /\ [][NextDerive]_vars

\* one evaluator outside a process group whose caller also hands over
\* predictions with arrays of differing lengths
InitMalformed == Init /\ world = {1}

NextMalformed ==
    \/ \E p \in Procs, batch \in Batches \cup MalformedBatches : Update(p, batch)
    \/ \E p \in Procs : ComputeStart(p)
    \/ \E p \in Procs : ComputeGather(p)
    \/ \E p \in Procs : ComputeFinish(p)

SpecMalformed == InitMalformed /\ [][NextMalformed]_vars

\* ------------------------------------------------------------- properties
\* every process of the group has handed its accumulators to the two
\* all_gather calls of merge
AllGathered == \A q \in world : SentEvalImgs(q)

\* the column (category k, area range a) of the gathered tensors at
\* position i of the concatenated image-id lists, read from the process
\* that contributed that position
GatheredColumn(k, a, i) ==
    LET ranks == Ranks(world)
        before(r) == Len(Flatten([s \in 1..(r - 1) |-> gathered[ranks[s]].img_ids]))
        r == CHOOSE r \in 1..Len(ranks) :
                 before(r) < i /\ i <= before(r) + Len(gathered[ranks[r]].img_ids)
    IN  gathered[ranks[r]].eval_imgs[k][a][i - before(r)]

FirstPosition(all, v) ==
    CHOOSE i \in 1..Len(all) : all[i] = v /\ \A j \in 1..(i - 1) : all[j] # v

Cells == (1..Len(ParamsCatIds)) \X (1..Len(AreaRng))

\* C1: the image-id axis returned by merge holds every gathered image id
\* exactly once, in strictly ascending order, and the merged tensor has one
\* image-axis column per returned id; the evaluator a completed compute
\* leaves behind has that shape too
C1_MergedAxisSortedUnique ==
    /\ AllGathered =>
          \A all \in {Flatten(all_gather("img_ids"))} :
          \A m \in {merge(all_gather("img_ids"), all_gather("eval_imgs"))} :
              /\ m.raised = ""
              /\ Range(m.img_ids) = Range(all)
              /\ \A i \in 1..(Len(m.img_ids) - 1) : m.img_ids[i] < m.img_ids[i + 1]
              /\ \A c \in Cells : Len(m.eval_imgs[c[1]][c[2]]) = Len(m.img_ids)
    /\ \A p \in world :
          returned[p] > 0 =>
              /\ \A i \in 1..(Len(coco_eval[p].imgIds) - 1) :
                     coco_eval[p].imgIds[i] < coco_eval[p].imgIds[i + 1]
              /\ Len(coco_eval[p].evalImgs)
                     = Cardinality(Cells) * Len(coco_eval[p].imgIds)

\* the gathered lists are out of order and repeat an image id
C1_Witness ==
    /\ AllGathered
    /\ \E all \in {Flatten(all_gather("img_ids"))} :
          /\ \E i, j \in 1..Len(all) : i < j /\ all[i] > all[j]
          /\ \E i, j \in 1..Len(all) : i < j /\ all[i] = all[j]

\* C2: the merged column of an image id is the column at the first position
\* of that id in the concatenation of the per-process lists in rank order,
\* and merge raises nothing
C2_FirstOccurrenceWins ==
    AllGathered =>
        \A all \in {Flatten(all_gather("img_ids"))} :
        \A m \in {merge(all_gather("img_ids"), all_gather("eval_imgs"))} :
            /\ m.raised = ""
            /\ \A n \in 1..Len(m.img_ids) : \A c \in Cells :
                   m.eval_imgs[c[1]][c[2]][n]
                       = GatheredColumn(c[1], c[2], FirstPosition(all, m.img_ids[n]))

\* an image id was gathered twice, with different records
C2_Witness ==
    /\ AllGathered
    /\ \E all \in {Flatten(all_gather("img_ids"))} :
       \E i, j \in 1..Len(all) :
          /\ i < j
          /\ all[i] = all[j]
          /\ \E c \in Cells : GatheredColumn(c[1], c[2], i) # GatheredColumn(c[1], c[2], j)

\* the orders in which n processes can be gathered
GatherOrders(n) ==
    {f \in [1..n -> 1..n] : \A i, j \in 1..n : f[i] = f[j] => i = j}

Permuted(s, f) == List([r \in 1..Len(s) |-> s[f[r]]])

\* merge on the gathered data taken in the order f
MergedInOrder(f) ==
    merge(Permuted(all_gather("img_ids"), f), Permuted(all_gather("eval_imgs"), f))

\* every gathered occurrence of image id v carries the same record
SameRecords(all, v) ==
    \A i, j \in 1..Len(all) :
        (all[i] = v /\ all[j] = v) =>
            \A c \in Cells : GatheredColumn(c[1], c[2], i) = GatheredColumn(c[1], c[2], j)

\* C3 as stated: merge gives the same image-id axis and the same content
\* in every cell for every order of the processes
C3_MergeIndependentOfOrder ==
    AllGathered =>
        \A m \in {merge(all_gather("img_ids"), all_gather("eval_imgs"))} :
        \A f \in GatherOrders(Cardinality(world)) : MergedInOrder(f) = m

\* C3: for every order of the processes merge gives the same sorted
\* image-id axis; the cells of an image id are the same for every order
\* when all its gathered occurrences carry the same record, and are always
\* the record of one of its occurrences
C3_MergeOrderOnEqualRecords ==
    AllGathered =>
        \A all \in {Flatten(all_gather("img_ids"))} :
        \A m \in {merge(all_gather("img_ids"), all_gather("eval_imgs"))} :
        \A f \in GatherOrders(Cardinality(world)) :
        \A mf \in {MergedInOrder(f)} :
            /\ mf.raised = ""
            /\ mf.img_ids = m.img_ids
            /\ \A n \in 1..Len(m.img_ids) :
                  /\ SameRecords(all, m.img_ids[n]) =>
                         \A c \in Cells :
                             mf.eval_imgs[c[1]][c[2]][n] = m.eval_imgs[c[1]][c[2]][n]
                  /\ \E i \in 1..Len(all) :
                         /\ all[i] = m.img_ids[n]
                         /\ \A c \in Cells :
                                mf.eval_imgs[c[1]][c[2]][n]
                                    = GatheredColumn(c[1], c[2], i)

\* two processes hold different image-id lists that share an image id
\* with equal records
C3_Witness ==
    /\ AllGathered
    /\ world = Procs
    /\ gathered[1].img_ids # gathered[2].img_ids
    /\ \E all \in {Flatten(all_gather("img_ids"))} :
       \E v \in Range(gathered[1].img_ids) \cap Range(gathered[2].img_ids) :
           SameRecords(all, v)

\* C4: two processes that completed compute over the same accumulators
\* hold the same merged image-id axis and the same merged match tensor
C4_SameMergedResultEverywhere ==
    \A p, q \in world :
        (returned[p] > 0 /\ returned[q] > 0) =>
            /\ coco_eval[p].imgIds = coco_eval[q].imgIds
            /\ coco_eval[p].evalImgs = coco_eval[q].evalImgs

\* both processes of the group completed compute, and they accumulated
\* different images locally
C4_Witness ==
    /\ world = Procs
    /\ \A p \in Procs : returned[p] > 0
    /\ img_ids[1] # img_ids[2]
    /\ eval_imgs[1] # eval_imgs[2]

\* C5: compute changes neither the accumulated image-id list nor the
\* accumulated list of match tensors, and a compute that follows a
\* completed one with no update in between does not raise and returns the
\* same metric mapping
C5_ComputeRepeatable ==
    [][\A p \in world :
          /\ (ComputeStart(p) \/ ComputeGather(p) \/ ComputeFinish(p)) =>
                 (img_ids' = img_ids /\ eval_imgs' = eval_imgs)
          /\ (returned[p] > 0 /\ ComputeStart(p)) => pc'[p] = "gather"
          /\ (returned[p] > 0 /\ ComputeFinish(p)) =>
                 (err'[p] = "" /\ results'[p] = results[p])]_vars

\* a process completed compute twice with no update in between
C5_Witness ==
    \E p \in world : returned[p] = 2 /\ ~IsNone(results[p])

\* C6 as stated: compute on an accumulator that holds no match tensor does
\* not raise and returns a mapping with every metric NaN
C6_EmptyComputeReturnsNaN ==
    [][\A p \in world :
          (ComputeStart(p) /\ eval_imgs[p] = <<>>) =>
              /\ err'[p] = ""
              /\ results'[p] = [m \in Range(Metrics[iou_type]) |-> NaN]]_vars

\* no update of any process of the group carried a detection
NoDetections ==
    \A q \in world : \A n \in 1..Len(eval_imgs[q]) : \A c \in Cells :
        \A i \in 1..Len(eval_imgs[q][n][c[1]][c[2]]) :
            \/ IsNone(eval_imgs[q][n][c[1]][c[2]][i])
            \/ eval_imgs[q][n][c[1]][c[2]][i].dtIds = <<>>

\* C7 as stated: when every update carried targets with ground truth and no
\* detection, compute does not raise and every metric it returns is NaN
C7_ZeroDetectionsGiveNaN ==
    \A p \in world :
        (returned[p] > 0 /\ NoDetections) =>
            /\ err[p] = ""
            /\ \A m \in DOMAIN results[p] : results[p][m] = NaN

\* C8: prepare fails with the unsupported-IoU-type error and returns no
\* record for every IoU type other than 'bbox', and does not raise for
\* 'bbox'
C8_UnsupportedIouType ==
    ~IsNone(prepared) =>
        IF iou_type = "bbox"
        THEN prepared.raised = ""
        ELSE prepared.raised = "ValueError" /\ prepared.value = <<>>

\* prepare was asked to format detections for keypoints
C8_Witness ==
    /\ ~IsNone(prepared)
    /\ iou_type = "keypoints"
    /\ \E n \in 1..Len(prepared.predictions) :
           prepared.predictions[n].prediction.boxes # <<>>

\* the detections of a batch in the order prepare_for_coco_detection walks
\* them: the images in dict order, the boxes of an image in their order,
\* every box with the label at its position; none when the walk raises
Detections(batch) ==
    LET keys == DictKeys(batch)
    IN  IF \E r \in 1..Len(keys) :
               IndexErrorIn(DictValue(batch, keys[r]), getCatIds)
        THEN <<>>
        ELSE Flatten([r \in 1..Len(keys) |->
                 [k \in 1..Len(DictValue(batch, keys[r]).boxes) |->
                     [image_id |-> keys[r],
                      label    |-> DictValue(batch, keys[r]).labels[k]]]])

\* C9: the record of a detection with class index i carries the i-th
\* category id of the store in the order of the store, and the table of
\* every evaluator stays the one read at construction
C9_CategoryRemapping ==
    /\ \A p \in Procs : contiguous_to_json_category[p] = Categories
    /\ (~IsNone(prepared) /\ prepared.raised = "") =>
          \A dets \in {Detections(prepared.predictions)} :
              /\ Len(prepared.value) = Len(dets)
              /\ \A n \in 1..Len(dets) :
                    /\ prepared.value[n].image_id = dets[n].image_id
                    /\ prepared.value[n].category_id
                           = Categories[dets[n].label + 1]

\* a record was produced for class index 0, whose category id is not the
\* smallest of the store
C9_Witness ==
    /\ ~IsNone(prepared)
    /\ prepared.raised = ""
    /\ \E dets \in {Detections(prepared.predictions)} :
       \E n \in 1..Len(dets) :
           /\ dets[n].label = 0
           /\ prepared.value[n].category_id # ParamsCatIds[1]

\* the per-category entries of a returned mapping
CategoryKeys(names) == {APKey(names[i]) : i \in 1..Len(names)}

StandardKeys == Range(Metrics[iou_type])

\* compute has installed its result on process p and no update of p has
\* reached evaluate since (an update that raises in prepare does not)
Computed(p) == summarized[p]

\* compute has installed a result on process p at some time
EverComputed(p) == coco_eval[p].stats # <<>>

\* C10 as stated: for any non-empty list of class names the mapping read
\* from a computed evaluator holds the standard metrics and one
\* per-category entry for every name
C10_PerCategoryForAnyNames ==
    (/\ ~IsNone(derived)
     /\ Computed(derived.proc)
     /\ Len(derived.class_names.list) >= 1) =>
        /\ derived.raised = ""
        /\ StandardKeys \subseteq DOMAIN derived.value
        /\ CategoryKeys(derived.class_names.list) \subseteq DOMAIN derived.value

\* C10: on an evaluator whose compute has installed its result, with no
\* update that reached evaluate since (updates that raised in prepare may
\* have followed), a list of two or more class names whose number is the
\* number of evaluated categories gives the standard metrics and one
\* per-category entry for every name, taken over area range 'all' at the
\* last max-dets value (the entries that are numbers average to AP); a list
\* of any other length of two or more fails the assertion; a list of at
\* most one name gives the standard metrics alone; once an update that did
\* not raise has followed the compute, a list of two or more names fails
\* with KeyError
C10_PerCategoryForMatchingNames ==
    (~IsNone(derived) /\ EverComputed(derived.proc)) =>
        \A names \in {derived.class_names.list} :
        \A done \in {Computed(derived.proc)} :
            /\ Len(names) <= 1 =>
                  /\ derived.raised = ""
                  /\ DOMAIN derived.value = StandardKeys
            /\ (Len(names) >= 2 /\ ~done) => derived.raised = "KeyError"
            /\ (Len(names) >= 2 /\ done /\ Len(names) # Len(ParamsCatIds)) =>
                  derived.raised = "AssertionError"
            /\ (Len(names) >= 2 /\ done /\ Len(names) = Len(ParamsCatIds)) =>
                  /\ derived.raised = ""
                  /\ DOMAIN derived.value = StandardKeys \cup CategoryKeys(names)
                  /\ \A valid \in {{i \in 1..Len(names) :
                                      derived.value[APKey(names[i])] # NaN}} :
                     \A order \in {SortedSet(valid)} :
                     \A total \in {FracSum([n \in 1..Len(order) |->
                                       derived.value[APKey(names[order[n]])]])} :
                        IF valid = {}
                        THEN derived.value["AP"] = NaN
                        ELSE derived.value["AP"]
                                 = Frac(total[1], total[2] * Cardinality(valid))

\* the report of a computed evaluator was read with one name per category
\* after an update that raised had followed the compute; a category holds
\* two detections in one image, so that its precision at the first and at
\* the last max-dets value differ
C10_Witness ==
    /\ ~IsNone(derived)
    /\ Computed(derived.proc)
    /\ failed[derived.proc]
    /\ ~IsNone(prepared) /\ prepared.raised # ""
    /\ derived.raised = ""
    /\ Len(derived.class_names.list) = Len(ParamsCatIds)
    /\ \E k \in 1..Len(ParamsCatIds) :
           CategoryAP(coco_eval[derived.proc].precision, k)
               # CategoryAPFirstMaxDets(coco_eval[derived.proc].precision, k)
    /\ \E i \in 1..Len(ParamsCatIds) :
           derived.value[APKey(derived.class_names.list[i])] \notin {NaN, <<0, 1>>}

\* the arrays of a prediction differ in length
DifferingLengths(prediction) ==
    \/ Len(prediction.boxes) # Len(prediction.scores)
    \/ Len(prediction.boxes) # Len(prediction.labels)

\* C11 as stated: formatting a batch in which a prediction has boxes, scores
\* and labels of differing lengths fails and returns no records
C11_DifferingLengthsRejected ==
    (/\ ~IsNone(prepared)
     /\ \E key \in Range(DictKeys(prepared.predictions)) :
            DifferingLengths(DictValue(prepared.predictions, key))) =>
        /\ prepared.raised # ""
        /\ prepared.value = <<>>

\* the match records accumulated so far: process, tensor, category, area
\* range, column
MatchRecords ==
    {c \in Procs \X (1..MaxUpdates) \X (1..Len(ParamsCatIds))
            \X (1..Len(AreaRng)) \X (1..Cardinality(ImgIds)) :
        /\ c[2] <= Len(eval_imgs[c[1]])
        /\ c[5] <= ImageAxisLen(eval_imgs[c[1]][c[2]])
        /\ ~IsNone(eval_imgs[c[1]][c[2]][c[3]][c[4]][c[5]])}

RecordAt(c) == eval_imgs[c[1]][c[2]][c[3]][c[4]][c[5]]

\* the ground truth of the store with a given annotation id
GtOf(id) == CHOOSE g \in Range(Annotations) : g.id = id

\* the ground truths of a match record that count as false negatives at iou
\* threshold t: not ignored and not matched
FalseNegatives(E, t) ==
    {r \in 1..Len(E.gtIds) : E.gtIgnore[r] = 0 /\ E.gtMatches[t][r] = 0}

\* the bucket 'all sizes' is the first area range
AllSizes == 1

\* C12: in every match record a ground truth whose area lies outside the
\* area range of the cell is marked ignored and is no false negative of the
\* cell at any iou threshold, and it is not among the ground truths that
\* accumulate counts for recall; in the 'all sizes' cell a ground truth is
\* ignored only when it is a crowd, and is a false negative whenever it is
\* unmatched
C12_AreaRangeIgnorePolicy ==
    \A c \in MatchRecords :
    \A E \in {RecordAt(c)} :
        /\ \A r \in 1..Len(E.gtIds) :
           \A g \in {GtOf(E.gtIds[r])} :
              /\ (g.area < AreaRng[c[4]][1] \/ g.area > AreaRng[c[4]][2]) =>
                     /\ E.gtIgnore[r] = 1
                     /\ \A t \in 1..Len(IouThrs) : r \notin FalseNegatives(E, t)
              /\ c[4] = AllSizes =>
                     /\ E.gtIgnore[r] = (IF g.iscrowd # 0 THEN 1 ELSE 0)
                     /\ \A t \in 1..Len(IouThrs) :
                            (g.iscrowd = 0 /\ E.gtMatches[t][r] = 0) =>
                                r \in FalseNegatives(E, t)
        /\ SliceInputs(<<E>>, MaxDets[Len(MaxDets)]).npig
              = Cardinality({r \in 1..Len(E.gtIds) :
                    \A g \in {GtOf(E.gtIds[r])} :
                        /\ g.iscrowd = 0
                        /\ g.area >= AreaRng[c[4]][1]
                        /\ g.area <= AreaRng[c[4]][2]})

\* an image was evaluated whose ground truth is unmatched at some iou
\* threshold, lies outside an area range and is ignored there, while the
\* 'all sizes' record of the same image counts it as a false negative
C12_Witness ==
    \E c \in MatchRecords :
    \E d \in MatchRecords :
    \E r \in 1..Len(RecordAt(c).gtIds) :
        /\ c[4] # AllSizes
        /\ d = <<c[1], c[2], c[3], AllSizes, c[5]>>
        /\ GtOf(RecordAt(c).gtIds[r]).area > AreaRng[c[4]][2]
        /\ RecordAt(c).dtIds # <<>>
        /\ RecordAt(c).gtIgnore[r] = 1
        /\ \E t \in 1..Len(IouThrs) :
              \E q \in FalseNegatives(RecordAt(d), t) :
                  RecordAt(d).gtIds[q] = RecordAt(c).gtIds[r]

\* the image ids found in the match records of column i of a tensor
ColumnImages(tensor, i) ==
    {tensor[c[1]][c[2]][i].image_id :
        c \in {d \in Cells : ~IsNone(tensor[d[1]][d[2]][i])}}

\* the accumulated image-id list of process p is as long as the image axis
\* of its tensors concatenated as compute concatenates them, and names the
\* image of every column
Aligned(p) ==
    \A joined \in {concatenate(eval_imgs[p])} :
        /\ Len(img_ids[p]) = ImageAxisLen(joined)
        /\ \A i \in 1..Len(img_ids[p]) :
               ColumnImages(joined, i) = {img_ids[p][i]}

\* C13: as long as no update call of a process has raised, its accumulated
\* image-id list and its accumulated match tensors are aligned
C13_AccumulatorAligned ==
    \A p \in world : ~failed[p] => Aligned(p)

\* a process accumulated two successful updates that repeat an image id,
\* one of them without any detection
C13_Witness ==
    \E p \in world :
        /\ ~failed[p]
        /\ Len(eval_imgs[p]) = 2
        /\ Len(img_ids[p]) > Cardinality(Range(img_ids[p]))
        /\ \E c \in MatchRecords : c[1] = p /\ c[2] = 1 /\ RecordAt(c).dtIds # <<>>
        /\ \A c \in MatchRecords : (c[1] = p /\ c[2] = 2) => RecordAt(c).dtIds = <<>>

\* C14 as stated: an update call that raises leaves the accumulated
\* image-id list and the accumulated list of match tensors as they were
C14_FailedUpdateLeavesState ==
    [][\A p \in world : \A batch \in Batches \cup MalformedBatches :
          (Update(p, batch) /\ err'[p] # "") =>
              (img_ids' = img_ids /\ eval_imgs' = eval_imgs)]_vars
====
